---- MODULE Spec2Model ----
(***************************************************************************)
(* Connection lifecycle and I/O pump of bevy_websocket_example             *)
(* (src/src/main.rs), native build (cfg(not(target_arch = "wasm32"))).     *)
(*                                                                         *)
(* One frame ("tick") of the Bevy app runs the five Update systems         *)
(*   check_connection_input, setup_connection, handle_tasks,               *)
(*   send_info, recv_info                                                  *)
(* in an arbitrary order (main.rs adds them without ordering constraints), *)
(* each system atomically, and then applies the deferred Commands of all   *)
(* of them at the end of the schedule.  The connect handshake runs on the  *)
(* AsyncComputeTaskPool and resolves at any moment; the peer delivers      *)
(* inbound messages at any moment.                                         *)
(*                                                                         *)
(* A "slot" is the entity spawned by setup_connection.  It is pending when *)
(* it carries a WebSocketConnectionSetupTask component and live when it    *)
(* carries a WebSocketClient component.                                    *)
(***************************************************************************)
EXTENDS Integers, Sequences, FiniteSets, Bags

\* ---------------------------------------------------------------- bounds
\* Number of SetupConnection triggers (entities spawned) explored.
MaxSlots == 2
\* Number of inbound messages a socket buffers in the model.
MaxInbox == 2
\* Largest frame delta, in time units of half a second.
MaxDelta == 3

\* ------------------------------------------------------- program constants
\* Duration::from_secs(1) of the SendMessageConfig timer, in time units of
\* half a second.
TimerDuration == 2

Slots == 1..MaxSlots
Systems == {"check_connection_input", "setup_connection", "handle_tasks",
            "send_info", "recv_info"}

VARIABLES
    inTick,     \* TRUE while the Update schedule of a frame is running
    ran,        \* systems that already ran in the current frame
    delta,      \* Res<Time>: time.delta() of the current frame
    events,     \* SetupConnection events not yet read by setup_connection
    reserved,   \* number of entity ids handed out by commands.spawn_empty()
    task,       \* per entity: state of the Task spawned on the pool
    cmds,       \* deferred Commands queued in the current frame
    setupTask,  \* entities carrying WebSocketConnectionSetupTask
    client,     \* entities carrying WebSocketClient
    inbox,      \* per entity: inbound messages buffered on its socket
    timer,      \* SendMessageConfig.timer
    calls,      \* bag of socket calls made by the system that ran last
    log,        \* bag of info!/warn! lines written by the system that ran last
    panicked    \* a system panicked: the app is gone

vars == <<inTick, ran, delta, events, reserved, task, cmds, setupTask, client,
          inbox, timer, calls, log, panicked>>

\* ------------------------------------------------------------- helpers
Line(lvl, msg, e) == [lvl |-> lvl, msg |-> msg, e |-> e]
Call(op, e, res) == [op |-> op, e |-> e, res |-> res]

\* The bag holding n copies of x.
Copies(x, n) == IF n = 0 THEN EmptyBag ELSE [l \in {x} |-> n]

RECURSIVE Ascending(_)
\* Iteration order of a query over entities: ascending entity id.
Ascending(S) ==
    IF S = {} THEN <<>>
    ELSE LET m == CHOOSE x \in S : \A y \in S : x <= y
         IN <<m>> \o Ascending(S \ {m})

\* A system of the Update schedule may run once per frame, in any order.
Runnable(sys) == inTick /\ ~panicked /\ sys \notin ran

\* No rate limit: the timer reports finished on every tick.
TimerTickAlways(t, d) ==
    [elapsed |-> (t.elapsed + d) % TimerDuration, finished |-> TRUE]

\* A timer that restarts from zero when it fires.
TimerTickReset(t, d) ==
    LET e == t.elapsed + d
    IN IF e >= TimerDuration
       THEN [elapsed |-> 0, finished |-> TRUE]
       ELSE [elapsed |-> e, finished |-> FALSE]

\* ------------------------------------------------------------ the timer
\* Timer::tick of a TimerMode::Repeating timer: the elapsed time wraps
\* around the duration, and finished() holds on the tick that wrapped.
TimerTick(t, d) ==
    LET e == t.elapsed + d
    IN IF e >= TimerDuration
       THEN [elapsed |-> e % TimerDuration, finished |-> TRUE]
       ELSE [elapsed |-> e, finished |-> FALSE]

\* block_on(&mut task.0) instead of poll_once: the poll waits for the
\* handshake and returns its result.
PollOnceBlocks(st) ==
    CASE st = "running" -> "SomeOk"
      [] st = "ok"      -> "SomeOk"
      [] st = "err"     -> "SomeErr"
      [] OTHER          -> "Panic"

\* A task that hands out a result again after its output was taken.
PollOnceRepeats(st) ==
    CASE st = "running" -> "None"
      [] st = "ok"      -> "SomeOk"
      [] st = "err"     -> "SomeErr"
      [] OTHER          -> "SomeOk"

\* ----------------------------------------------------------- the task
\* Task states: "none" (not spawned), "running", "ok" / "err" (resolved,
\* output not yet taken), "closed" (output taken by a poll).
\*
\* future::poll_once(&mut task.0): None while the handshake is running,
\* Some(result) once; polling a task whose output was already taken panics
\* ("Task polled after completion").
PollOnce(st) ==
    CASE st = "running" -> "None"
      [] st = "ok"      -> "SomeOk"
      [] st = "err"     -> "SomeErr"
      [] OTHER          -> "Panic"

\* --------------------------------------------------- deferred commands
\* setup_connection attaching the client component right away (what the
\* wasm32 branch of setup_connection does), before any handshake result.
InsertClientCmd(e) == [op |-> "promote", e |-> e]

\* setup_connection attaching the new task to the first entity instead of
\* the one it just spawned (replacing what that entity holds).
InsertTaskCmdReuse(e) == [op |-> "insert_task", e |-> 1]

\* commands.entity(entity).insert(WebSocketConnectionSetupTask(task))
InsertTaskCmd(e) == [op |-> "insert_task", e |-> e]
\* The closure the resolved task pushes on its CommandQueue.
PromoteCmd(e) == [op |-> "promote", e |-> e]

\* A promotion closure that forgets .remove::<WebSocketConnectionSetupTask>().
ApplyCommandKeepTask(c, w) ==
    IF c.op = "insert_task"
    THEN [w EXCEPT !.setupTask = @ \cup {c.e}]
    ELSE [w EXCEPT !.client = @ \cup {c.e}]

\* A promotion closure that forgets .insert(WebSocketClient(client)).
ApplyCommandNoInsert(c, w) ==
    IF c.op = "insert_task"
    THEN [w EXCEPT !.setupTask = @ \cup {c.e}]
    ELSE [w EXCEPT !.setupTask = @ \ {c.e}]

\* World after one command: w = [setupTask |-> ..., client |-> ...].
ApplyCommand(c, w) ==
    IF c.op = "insert_task"
    THEN [w EXCEPT !.setupTask = @ \cup {c.e}]
    ELSE [w EXCEPT !.client = @ \cup {c.e}, !.setupTask = @ \ {c.e}]

RECURSIVE ApplyAll(_, _)
ApplyAll(q, w) ==
    IF q = <<>> THEN w ELSE ApplyAll(Tail(q), ApplyCommand(Head(q), w))

\* ------------------------------------------------------------- sockets
SendResults == {"ok", "wouldblock", "err"}
\* read() yields a message only when one is buffered.
ReadResults(n) == IF n > 0 THEN {"ok", "err"} ELSE {"wouldblock", "err"}

\* The match without its WouldBlock arm: every Err is a warning.
SendArmNoWouldBlock(e, res) ==
    IF res = "ok" THEN {Line("info", "Data successfully sent!", e)}
    ELSE {Line("warn", "Could not send the message", e)}

\* The match on client.send(..) in send_info.
SendArm(e, res) ==
    CASE res = "ok"         -> {Line("info", "Data successfully sent!", e)}
      [] res = "wouldblock" -> {}
      [] OTHER              -> {Line("warn", "Could not send the message", e)}

\* A loop that an Err ends (as with `?`): the clients after the first
\* failing one are not visited.
SendCallsAbortOnErr(cl, res) ==
    {Call("send", e, res[e]) :
        e \in {x \in cl : \A y \in cl : y < x => res[y] # "err"}}

\* The for loop of send_info over the clients: one send(..) per client,
\* whatever the earlier clients' outcomes were.
\* A send loop that stops at the first client whose send would block.
SendCallsStopOnWouldBlock(cl, res) ==
    {Call("send", e, res[e]) :
        e \in {x \in cl : \A y \in cl : y < x => res[y] # "wouldblock"}}

SendCalls(cl, res) == {Call("send", e, res[e]) : e \in cl}

\* The for loop of recv_info over the clients: one read() per client.
ReadCalls(cl, res) == {Call("read", e, res[e]) : e \in cl}

\* A pump that tears a channel down on a genuine transport error.
StillInstalledDropErr(cl, res) == {e \in cl : res[e] # "err"}

\* Clients still installed after a pump loop: no arm of the matches in
\* send_info and recv_info removes the component or despawns the entity.
StillInstalled(cl, res) == cl

\* The match on client.read() in recv_info.
RecvArm(e, res) ==
    CASE res = "ok"         -> {Line("info", "Received message", e)}
      [] res = "wouldblock" -> {}
      [] OTHER              -> {Line("warn", "error receiving", e)}

\* Messages left on the socket after one recv_info visit of the client.
RecvLeft(n, res) == IF res = "ok" THEN n - 1 ELSE n

\* ----------------------------------------------------------------- Init
Init ==
    /\ inTick = FALSE
    /\ ran = {}
    /\ delta = 0
    /\ events = 0
    /\ reserved = 0
    /\ task = [e \in Slots |-> "none"]
    /\ cmds = <<>>
    /\ setupTask = {}
    /\ client = {}
    /\ inbox = [e \in Slots |-> 0]
    /\ timer = [elapsed |-> 0, finished |-> FALSE]
    /\ calls = EmptyBag
    /\ log = EmptyBag
    /\ panicked = FALSE

\* -------------------------------------------------------------- actions
\* App::run: a new frame starts; Time is updated before Update runs.
BeginTick ==
    /\ ~inTick /\ ~panicked
    /\ \E d \in 0..MaxDelta : delta' = d
    /\ inTick' = TRUE
    /\ ran' = {}
    /\ UNCHANGED <<events, reserved, task, cmds, setupTask, client, inbox,
                   timer, calls, log, panicked>>

CheckConnectionInput ==
    /\ Runnable("check_connection_input")
    /\ ran' = ran \cup {"check_connection_input"}
    /\ \E just_pressed \in BOOLEAN :
          events' = IF just_pressed /\ reserved + events < MaxSlots
                    THEN events + 1 ELSE events
    /\ calls' = EmptyBag
    /\ log' = EmptyBag
    /\ UNCHANGED <<inTick, delta, reserved, task, cmds, setupTask, client,
                   inbox, timer, panicked>>

SetupConnection ==
    /\ Runnable("setup_connection")
    /\ ran' = ran \cup {"setup_connection"}
    /\ LET new == (reserved + 1)..(reserved + events)
       IN /\ reserved' = reserved + events
          /\ task' = [e \in Slots |-> IF e \in new THEN "running" ELSE task[e]]
          /\ cmds' = cmds \o [i \in 1..events |-> InsertTaskCmd(reserved + i)]
          /\ log' = Copies(Line("info", "Setting up connection!", 0), events)
    /\ events' = 0
    /\ calls' = EmptyBag
    /\ UNCHANGED <<inTick, delta, setupTask, client, inbox, timer,
                   panicked>>

\* handle_tasks with an automatic retry: a failed handshake is started again.
HandleTasksRetry ==
    /\ Runnable("handle_tasks")
    /\ ran' = ran \cup {"handle_tasks"}
    /\ LET polled == [e \in setupTask |-> PollOnce(task[e])]
           okd    == {e \in setupTask : polled[e] = "SomeOk"}
           errd   == {e \in setupTask : polled[e] = "SomeErr"}
       IN /\ panicked' = (\E e \in setupTask : polled[e] = "Panic")
          /\ task' = [e \in Slots |->
                        IF e \in okd THEN "closed"
                        ELSE IF e \in errd THEN "running" ELSE task[e]]
          /\ cmds' = cmds \o [i \in 1..Cardinality(okd) |->
                                PromoteCmd(Ascending(okd)[i])]
          /\ log' = SetToBag({Line("info", "Connection failed with", e) :
                                 e \in errd})
    /\ calls' = EmptyBag
    /\ UNCHANGED <<inTick, delta, events, reserved, setupTask, client, inbox,
                   timer>>

HandleTasks ==
    /\ Runnable("handle_tasks")
    /\ ran' = ran \cup {"handle_tasks"}
    /\ LET polled == [e \in setupTask |-> PollOnce(task[e])]
           okd    == {e \in setupTask : polled[e] = "SomeOk"}
           errd   == {e \in setupTask : polled[e] = "SomeErr"}
       IN /\ panicked' = (\E e \in setupTask : polled[e] = "Panic")
          /\ task' = [e \in Slots |->
                        IF e \in okd \cup errd THEN "closed" ELSE task[e]]
          /\ cmds' = cmds \o [i \in 1..Cardinality(okd) |->
                                PromoteCmd(Ascending(okd)[i])]
          /\ log' = SetToBag({Line("info", "Connection failed with", e) :
                                 e \in errd})
    /\ calls' = EmptyBag
    /\ UNCHANGED <<inTick, delta, events, reserved, setupTask, client, inbox,
                   timer>>

SendInfo ==
    /\ Runnable("send_info")
    /\ ran' = ran \cup {"send_info"}
    /\ timer' = TimerTick(timer, delta)
    /\ IF timer'.finished
       THEN \E res \in [client -> SendResults] :
              /\ calls' = SetToBag(SendCalls(client, res))
              /\ client' = StillInstalled(client, res)
              /\ log' =
                    SetToBag({Line("info", "Time to send data again...", 0)}
                       \cup {Line("info", "Sending data", e) : e \in client}
                       \cup UNION {SendArm(e, res[e]) : e \in client})
       ELSE /\ calls' = EmptyBag
            /\ log' = EmptyBag
            /\ UNCHANGED client
    /\ UNCHANGED <<inTick, delta, events, reserved, task, cmds, setupTask,
                   inbox, panicked>>

RecvInfo ==
    /\ Runnable("recv_info")
    /\ ran' = ran \cup {"recv_info"}
    /\ \E res \in [client -> {"ok", "wouldblock", "err"}] :
          /\ \A e \in client : res[e] \in ReadResults(inbox[e])
          /\ calls' = SetToBag(ReadCalls(client, res))
          /\ client' = StillInstalled(client, res)
          /\ log' = SetToBag(UNION {RecvArm(e, res[e]) : e \in client})
          /\ inbox' = [e \in Slots |->
                         IF e \in client THEN RecvLeft(inbox[e], res[e])
                         ELSE inbox[e]]
    /\ UNCHANGED <<inTick, delta, events, reserved, task, cmds, setupTask,
                   timer, panicked>>

\* End of the Update schedule: every system ran, the deferred commands of
\* the frame are applied to the world.  (calls and log are emptied: they
\* describe a system's run.)
ApplyDeferred ==
    /\ inTick /\ ~panicked /\ ran = Systems
    /\ LET w == ApplyAll(cmds, [setupTask |-> setupTask, client |-> client])
       IN /\ setupTask' = w.setupTask
          /\ client' = w.client
    /\ cmds' = <<>>
    /\ inTick' = FALSE
    /\ calls' = EmptyBag
    /\ log' = EmptyBag
    /\ UNCHANGED <<ran, delta, events, reserved, task, inbox, timer,
                   panicked>>

\* The handshake of entity e finishes on the task pool.
HandshakeResolve(e, ok) ==
    /\ ~panicked
    /\ task[e] = "running"
    /\ task' = [task EXCEPT ![e] = IF ok THEN "ok" ELSE "err"]
    /\ UNCHANGED <<inTick, ran, delta, events, reserved, cmds, setupTask,
                   client, inbox, timer, calls, log, panicked>>

\* The peer delivers one message to the socket of a live client.
PeerMessage(e) ==
    /\ ~panicked
    /\ e \in client
    /\ inbox[e] < MaxInbox
    /\ inbox' = [inbox EXCEPT ![e] = @ + 1]
    /\ UNCHANGED <<inTick, ran, delta, events, reserved, task, cmds,
                   setupTask, client, timer, calls, log, panicked>>

Next ==
    \/ BeginTick
    \/ CheckConnectionInput
    \/ SetupConnection
    \/ HandleTasks
    \/ SendInfo
    \/ RecvInfo
    \/ ApplyDeferred
    \/ \E e \in Slots, ok \in BOOLEAN : HandshakeResolve(e, ok)
    \/ \E e \in Slots : PeerMessage(e)

Spec == Init /\ [][Next]_vars

\* The app runner keeps running the Update schedule: a frame begins, every
\* system of the schedule runs, and the deferred commands are applied.
\* Nothing is assumed about key presses, handshakes or the peer.
FairSpec ==
    /\ Spec
    /\ WF_vars(BeginTick)
    /\ WF_vars(CheckConnectionInput)
    /\ WF_vars(SetupConnection)
    /\ WF_vars(HandleTasks)
    /\ WF_vars(SendInfo)
    /\ WF_vars(RecvInfo)
    /\ WF_vars(ApplyDeferred)


\* =====================================================================
\* Properties
\* =====================================================================
SlotState(e) ==
    IF e \in client THEN "live"
    ELSE IF e \in setupTask THEN "pending" ELSE "empty"

InCmds(c) == \E i \in 1..Len(cmds) : cmds[i] = c
NumCmds(c) == Cardinality({i \in 1..Len(cmds) : cmds[i] = c})

\* Number of socket calls `op` on entity e in the bag b of calls.
NumCalls(b, op, e) ==
    CopiesIn(Call(op, e, "ok"), b) + CopiesIn(Call(op, e, "wouldblock"), b)
        + CopiesIn(Call(op, e, "err"), b)

\* The step is the run of system sys.
Ran(sys) == sys \notin ran /\ sys \in ran'

\* The step is the end of a frame (the deferred commands are applied).
EndOfFrame == inTick /\ ~inTick'

\* C1: in every state a system can observe, no slot carries the pending
\* task component and the live client component together.
C1_NeverPendingAndLive ==
    \A e \in Slots : ~(e \in setupTask /\ e \in client)

\* C1 case: a promotion is queued while the slot is still pending, and
\* another slot is already live.
C1_Witness ==
    \E e \in Slots, f \in Slots :
        /\ InCmds(PromoteCmd(e)) /\ e \in setupTask
        /\ f \in client

\* C2: a successful poll queues exactly one promotion for a pending slot
\* that has no channel; the end of that frame installs the channel and
\* removes the task entry in one step; a slot gains a channel or loses its
\* task entry in no other way.
C2_PromotionAtomic ==
    [][\A e \in Slots :
         /\ (Ran("handle_tasks") /\ e \in setupTask /\ task[e] = "ok")
               => (NumCmds(PromoteCmd(e))' = 1 /\ e \notin client)
         /\ NumCmds(PromoteCmd(e))' <= 1
         /\ (EndOfFrame /\ InCmds(PromoteCmd(e)))
               => (e \in client' /\ e \notin setupTask')
         /\ (e \in client' /\ e \notin client)
               => (e \in setupTask /\ e \notin setupTask'
                   /\ NumCmds(PromoteCmd(e)) = 1)
         /\ (e \in setupTask /\ e \notin setupTask') => e \in client'
      ]_vars

\* C2 case: between frames, a slot is live after its task was consumed.
C2_Witness ==
    \E e \in Slots :
        ~inTick /\ e \in client /\ e \notin setupTask /\ task[e] = "closed"

\* C3 (as claimed): at the end of a frame, a pending slot whose task result
\* was taken and which has no promotion queued (its handshake failed) is
\* removed: it holds neither component afterwards.
C3_FailedSlotRemoved ==
    [][\A e \in Slots :
         (EndOfFrame /\ e \in setupTask /\ task[e] = "closed"
            /\ ~InCmds(PromoteCmd(e)))
            => SlotState(e)' = "empty"
      ]_vars

\* C4 (as claimed): handle_tasks can run in every frame: it never polls a
\* task whose result was already taken, and its polls never bring the app
\* down.
C4_NoRepollOfResolvedTask ==
    [][Ran("handle_tasks") =>
         /\ \A e \in setupTask : task[e] # "closed"
         /\ ~panicked'
      ]_vars

\* C5 (as claimed): one run of recv_info without a transport error logs as
\* many received messages for a live channel as were buffered on it, and
\* leaves none buffered.
C5_RecvDrainsAll ==
    [][Ran("recv_info") =>
         \A e \in client :
            CopiesIn(Call("read", e, "err"), calls') = 0
              => /\ CopiesIn(Line("info", "Received message", e), log')
                       = inbox[e]
                 /\ inbox'[e] = 0
      ]_vars

\* C6 (as claimed): send_info makes no send attempt while the accumulated
\* time is below the interval, makes exactly one per live channel on the
\* tick that reaches it, and then restarts the accumulator from zero.
C6_TimerResetsOnFiring ==
    [][Ran("send_info") =>
         LET fired == timer.elapsed + delta >= TimerDuration
         IN /\ \A e \in Slots :
                 NumCalls(calls', "send", e)
                    = IF fired /\ e \in client THEN 1 ELSE 0
            /\ fired => timer'.elapsed = 0
            /\ ~fired => timer'.elapsed = timer.elapsed + delta
      ]_vars

\* C6 (amended): as above, except that on firing the accumulator keeps the
\* time in excess of the interval (elapsed mod T) instead of restarting
\* from zero.
C6_TimerKeepsRemainder ==
    [][Ran("send_info") =>
         LET fired == timer.elapsed + delta >= TimerDuration
         IN /\ \A e \in Slots :
                 NumCalls(calls', "send", e)
                    = IF fired /\ e \in client THEN 1 ELSE 0
            /\ fired => timer'.elapsed = (timer.elapsed + delta) % TimerDuration
            /\ ~fired => timer'.elapsed = timer.elapsed + delta
            /\ timer'.elapsed < TimerDuration
      ]_vars

\* C6 case: the send cycle just fired with time left over, and a live
\* channel got its send attempt.
C6_Witness ==
    /\ timer.finished /\ timer.elapsed > 0
    /\ \E e \in client : NumCalls(calls, "send", e) = 1

\* C7: a send or read that would block writes no line for that outcome
\* (in particular no warning), leaves the channel installed and its buffer
\* untouched, and the frame goes on.
C7_WouldBlockIsSilent ==
    [][\A e \in Slots :
         /\ (Ran("send_info") /\ CopiesIn(Call("send", e, "wouldblock"), calls') > 0)
            => /\ \A l \in BagToSet(log') :
                     l.e = e => l = Line("info", "Sending data", e)
               /\ e \in client' /\ e \notin setupTask'
               /\ inbox'[e] = inbox[e]
               /\ inTick' /\ ~panicked'
         /\ (Ran("recv_info") /\ CopiesIn(Call("read", e, "wouldblock"), calls') > 0)
            => /\ \A l \in BagToSet(log') : l.e # e
               /\ e \in client' /\ e \notin setupTask'
               /\ inbox'[e] = inbox[e]
               /\ inTick' /\ ~panicked'
      ]_vars

\* C7 case: recv_info just ran and a live channel's read would block, while
\* another channel's read delivered a message.
C7_Witness ==
    \E e \in client, f \in client :
        /\ CopiesIn(Call("read", e, "wouldblock"), calls) = 1
        /\ CopiesIn(Call("read", f, "ok"), calls) = 1
        /\ inTick /\ ~panicked

\* C8: when a send (a read) on one live channel fails with a transport
\* error, every live channel still gets its one send (read) in that run of
\* the system, the failure is logged as a warning, and the frame goes on.
C8_ErrorsHandledPerChannel ==
    [][\A f \in Slots :
         /\ (Ran("send_info") /\ CopiesIn(Call("send", f, "err"), calls') > 0)
            => /\ \A e \in client : NumCalls(calls', "send", e) = 1
               /\ CopiesIn(Line("warn", "Could not send the message", f), log') = 1
               /\ inTick' /\ ~panicked'
         /\ (Ran("recv_info") /\ CopiesIn(Call("read", f, "err"), calls') > 0)
            => /\ \A e \in client : NumCalls(calls', "read", e) = 1
               /\ CopiesIn(Line("warn", "error receiving", f), log') = 1
               /\ inTick' /\ ~panicked'
      ]_vars

\* C8 case: send_info just ran; the send on the first channel failed and
\* the second channel's send went through.
C8_Witness ==
    \E e \in client, f \in client :
        /\ e < f
        /\ CopiesIn(Call("send", e, "err"), calls) = 1
        /\ CopiesIn(Call("send", f, "ok"), calls) = 1
        /\ CopiesIn(Line("info", "Data successfully sent!", f), log) = 1

\* C9: every socket call of the pump is on a slot whose task result was
\* taken by a poll and which carries the client component; a slot gains
\* that component only when its queued promotion is applied, and the pump
\* did not touch it before.
C9_PumpOnlyAfterPromotion ==
    /\ [](\A c \in BagToSet(calls) :
             c.e \in client /\ task[c.e] = "closed" /\ c.e \notin setupTask)
    /\ [](\A e \in client : task[e] = "closed")
    /\ [][\A e \in Slots :
            (e \in client' /\ e \notin client)
               => (EndOfFrame /\ InCmds(PromoteCmd(e)) /\ task[e] = "closed")
         ]_vars

\* C9 case: the pump just sent on a live slot while another slot, whose
\* handshake has already succeeded, is still pending and was left alone.
C9_Witness ==
    \E e \in client, f \in setupTask :
        /\ NumCalls(calls, "send", e) = 1
        /\ NumCalls(calls, "send", f) = 0
        /\ task[f] = "ok"

\* C10: a slot moves only along empty -> pending -> {live, empty}: a live
\* slot stays live, an empty slot can only become pending (and only with a
\* task nobody polled to completion), whatever the outcomes of the pump.
C10_LiveIsTerminal ==
    [][\A e \in Slots :
         /\ SlotState(e) = "live" => SlotState(e)' = "live"
         /\ SlotState(e) = "empty" => SlotState(e)' \in {"empty", "pending"}
         /\ (SlotState(e) = "empty" /\ SlotState(e)' = "pending")
               => (task[e] # "closed" /\ InCmds(InsertTaskCmd(e)))
      ]_vars

\* C10 case: a slot is live, after pump runs in which its read failed with
\* a transport error, in a later frame.
C10_Witness ==
    \E e \in client :
        /\ CopiesIn(Call("read", e, "err"), calls) = 1
        /\ CopiesIn(Line("warn", "error receiving", e), log) = 1
        /\ inbox[e] = MaxInbox

\* Entities for which a connection task was ever started.
Started == {e \in Slots : task[e] # "none"}

\* C11: the tasks started are exactly one per trigger consumed by
\* setup_connection; a task starts only in the run of setup_connection that
\* consumes its trigger, and a task that left the running state (failed or
\* not) is never started again.
C11_OneAttemptPerTrigger ==
    /\ [](Started = 1..reserved)
    /\ [][\A e \in Slots :
            /\ (task'[e] = "running" /\ task[e] # "running")
                  => (task[e] = "none" /\ Ran("setup_connection")
                      /\ e \in (reserved + 1)..(reserved + events))
            /\ Ran("setup_connection")
                  => Cardinality(Started') = Cardinality(Started) + events
         ]_vars

\* C11 case: the first attempt failed and handle_tasks has reported it; the
\* only other task running is the one of a second trigger.
C11_Witness ==
    /\ reserved = 2 /\ events = 0
    /\ task[1] = "closed" /\ 1 \in setupTask /\ 1 \notin client
    /\ task[2] = "running"

\* C12: a run of setup_connection touches no existing slot: their tasks,
\* components, buffers and queued commands stay as they are, and each
\* trigger queues one insert command for a fresh entity with its own
\* running task; at the end of the frame that entity becomes pending and the
\* other slots change only by their own promotion.
C12_TriggerLeavesOthersAlone ==
    [][/\ Ran("setup_connection") =>
            /\ \A e \in 1..reserved :
                  /\ task'[e] = task[e]
                  /\ SlotState(e)' = SlotState(e)
                  /\ inbox'[e] = inbox[e]
                  /\ NumCmds(InsertTaskCmd(e))' = NumCmds(InsertTaskCmd(e))
                  /\ NumCmds(PromoteCmd(e))' = NumCmds(PromoteCmd(e))
            /\ \A e \in (reserved + 1)..(reserved + events) :
                  /\ task'[e] = "running"
                  /\ NumCmds(InsertTaskCmd(e))' = 1
                  /\ SlotState(e) = "empty"
            /\ Len(cmds') = Len(cmds) + events
       /\ EndOfFrame =>
            \A e \in Slots :
               /\ InCmds(InsertTaskCmd(e))
                     => (SlotState(e) = "empty" /\ SlotState(e)' = "pending")
               /\ (~InCmds(InsertTaskCmd(e)) /\ ~InCmds(PromoteCmd(e)))
                     => SlotState(e)' = SlotState(e)
      ]_vars

\* C12 case: setup_connection just consumed a trigger while the first slot
\* is live; the second slot's insert is queued.
C12_Witness ==
    /\ 1 \in client
    /\ InCmds(InsertTaskCmd(2)) /\ task[2] = "running"
    /\ CopiesIn(Line("info", "Setting up connection!", 0), log) = 1

\* C13: a poll of a task whose handshake is still running returns nothing:
\* the task keeps running, the slot keeps its pending entry, no command
\* and no line is produced for it, whatever the other slots' polls do; a
\* frame that ends without a queued promotion for a pending slot leaves it
\* pending, and the frame whose poll took a success ends with the slot
\* live.  (So a success first seen by the third poll shows pending after
\* the first two frames and live after the third.)
C13_PollOfRunningTaskKeepsPending ==
    [][/\ Ran("handle_tasks") =>
            \A e \in setupTask :
               task[e] = "running" =>
                  /\ task'[e] = "running"
                  /\ SlotState(e)' = "pending"
                  /\ NumCmds(PromoteCmd(e))' = 0
                  /\ \A l \in BagToSet(log') : l.e # e
                  /\ ~panicked' \/ \E f \in setupTask : task[f] = "closed"
       /\ Ran("handle_tasks") =>
            \A e \in Slots :
               task'[e] # task[e] =>
                  (e \in setupTask /\ task[e] \in {"ok", "err"}
                      /\ task'[e] = "closed")
       /\ EndOfFrame =>
            \A e \in setupTask :
               SlotState(e)' = IF InCmds(PromoteCmd(e)) THEN "live"
                               ELSE "pending"
      ]_vars

\* C13 case: handle_tasks ran, the first slot's handshake is still running
\* and the slot is pending, while the second slot's success was taken by
\* the same run.
C13_Witness ==
    /\ "handle_tasks" \in ran
    /\ 1 \in setupTask /\ task[1] = "running"
    /\ ~InCmds(PromoteCmd(1))
    /\ InCmds(PromoteCmd(2)) /\ task[2] = "closed"

\* C14 (as claimed): one tick runs at most one send cycle, and two send
\* cycles are at least the interval T apart; for cycles of two consecutive
\* frames the time between them is the second frame's delta.
C14_SuccessiveCyclesApart ==
    [][Ran("send_info") =>
         /\ CopiesIn(Line("info", "Time to send data again...", 0), log') <= 1
         /\ (timer.finished /\ timer'.finished) => delta >= TimerDuration
      ]_vars

\* C14 (amended): one tick runs at most one send cycle, whatever its delta;
\* a cycle runs only when the time carried over from the last cycle plus
\* the deltas since reach T, so two cycles are at least T minus the carried
\* remainder (which is below T) apart.
C14_CyclesApartUpToRemainder ==
    [][Ran("send_info") =>
         /\ CopiesIn(Line("info", "Time to send data again...", 0), log')
               = IF timer'.finished THEN 1 ELSE 0
         /\ \A e \in Slots : NumCalls(calls', "send", e) <= 1
         /\ timer'.finished => timer.elapsed + delta >= TimerDuration
         /\ (timer.finished /\ timer'.finished)
               => (delta >= TimerDuration - timer.elapsed /\ delta > 0)
         /\ timer.elapsed < TimerDuration
      ]_vars

\* C14 case: a frame whose delta is larger than T ran one send cycle with
\* one send on a live channel.
C14_Witness ==
    /\ delta > TimerDuration /\ timer.finished
    /\ CopiesIn(Line("info", "Time to send data again...", 0), log) = 1
    /\ \E e \in client : NumCalls(calls, "send", e) = 1

\* C15: a send cycle makes one send attempt on every slot that is live in
\* that run and none on any other slot; a send that would block does not
\* keep the remaining live channels from their attempt.
C15_OneSendPerLiveSlot ==
    [][(Ran("send_info") /\ timer'.finished) =>
         /\ \A e \in Slots :
               IF SlotState(e) = "live"
               THEN /\ NumCalls(calls', "send", e) = 1
                    /\ CopiesIn(Line("info", "Sending data", e), log') = 1
               ELSE /\ NumCalls(calls', "send", e) = 0
                    /\ \A l \in BagToSet(log') : l.e # e
         /\ \A e \in client :
               CopiesIn(Call("send", e, "wouldblock"), calls') = 1
                  => \A f \in client \ {e} : NumCalls(calls', "send", f) = 1
      ]_vars

\* C15 case: the cycle fired, the send on the first live channel would
\* block and the send on the second one was made and succeeded.
C15_Witness ==
    /\ timer.finished
    /\ client = {1, 2}
    /\ CopiesIn(Call("send", 1, "wouldblock"), calls) = 1
    /\ CopiesIn(Call("send", 2, "ok"), calls) = 1

\* C16: ticks never wait for a handshake: in every state with a handshake
\* outstanding, a frame can begin, every system of the frame that has not
\* run yet can run, and the frame can end.
C16_TickRunsWithHandshakesOutstanding ==
    (\E e \in Slots : task[e] = "running") =>
        /\ ~inTick => ENABLED BeginTick
        /\ (inTick /\ "check_connection_input" \notin ran)
              => ENABLED CheckConnectionInput
        /\ (inTick /\ "setup_connection" \notin ran) => ENABLED SetupConnection
        /\ (inTick /\ "handle_tasks" \notin ran) => ENABLED HandleTasks
        /\ (inTick /\ "send_info" \notin ran) => ENABLED SendInfo
        /\ (inTick /\ "recv_info" \notin ran) => ENABLED RecvInfo
        /\ (inTick /\ ran = Systems) => ENABLED ApplyDeferred

\* C17: with frames running forever, a pending slot whose handshake
\* succeeded becomes live, and a pending slot whose handshake failed stops
\* being pending.
C17_ResolvedLeavesPending ==
    \A e \in Slots :
        /\ (e \in setupTask /\ task[e] = "ok") ~> (e \in client)
        /\ (e \in setupTask /\ task[e] \in {"err", "closed"})
              ~> (e \notin setupTask)

\* C18: the task is spawned before its pending entry is queued; a result
\* stays with the task, whenever the handshake resolves, until a run of
\* handle_tasks takes it while the slot holds the pending entry; that run
\* applies it once (a success queues one promotion, a failure one line),
\* and nothing is queued for a task that holds no result; the promotion is
\* applied to a slot that holds the pending entry.
C18_ResultAppliedOnceWhenAttached ==
    /\ [](\A e \in Slots :
            (InCmds(InsertTaskCmd(e)) \/ e \in setupTask) => task[e] # "none")
    /\ [][\A e \in Slots :
            /\ task[e] \in {"ok", "err"} =>
                  \/ task'[e] = task[e]
                  \/ Ran("handle_tasks") /\ e \in setupTask
                        /\ task'[e] = "closed"
            /\ task[e] = "closed" => task'[e] = "closed"
            /\ Ran("handle_tasks") =>
                  /\ NumCmds(PromoteCmd(e))'
                        = IF e \in setupTask /\ task[e] = "ok" THEN 1 ELSE 0
                  /\ CopiesIn(Line("info", "Connection failed with", e), log')
                        = IF e \in setupTask /\ task[e] = "err" THEN 1 ELSE 0
                  /\ (e \in setupTask /\ task[e] \in {"ok", "err"})
                        => task'[e] = "closed"
            /\ (~Ran("handle_tasks") /\ ~EndOfFrame)
                  => NumCmds(PromoteCmd(e))' = NumCmds(PromoteCmd(e))
            /\ (EndOfFrame /\ InCmds(PromoteCmd(e)))
                  => (e \in setupTask /\ e \in client' /\ task[e] = "closed")
         ]_vars

\* C18 case: the second handshake resolved before its pending entry was
\* attached and keeps its result, in a frame in which handle_tasks took
\* the first slot's success.
C18_Witness ==
    /\ InCmds(InsertTaskCmd(2)) /\ 2 \notin setupTask /\ task[2] = "ok"
    /\ InCmds(PromoteCmd(1)) /\ 1 \in setupTask /\ task[1] = "closed"

====
